---- MODULE Spec2Model ----
(***************************************************************************)
(* Model of nn/activations.py: the Linear layer and the Sigmoid, Tanh and  *)
(* ReLU activations, with the numpy operations they use.                   *)
(*                                                                         *)
(* An ndarray is a record [type, shape, data] with data in row-major       *)
(* order.  Python's None and a raised exception are records of the same    *)
(* form with another type.  float64 values are kept in fixed point: the    *)
(* integer n stands for n / One in the results of Sigmoid and Tanh, and    *)
(* for n itself everywhere else (Linear and ReLU only add and multiply     *)
(* small integers, which float64 does exactly).                            *)
(***************************************************************************)
EXTENDS Integers, Sequences, FiniteSets, TLC

\* ---- bounds of the model ----
MaxBatch == 2
MaxDim == 2
MaxSeed == 1
MaxCalls == 3

\* ---- values ----
None == [type |-> "NoneType", shape |-> <<>>, data |-> <<>>]

Raise(exc) == [type |-> exc, shape |-> <<>>, data |-> <<>>]

IsArray(a) == a.type = "ndarray"

IsNone(a) == a.type = "NoneType"

IsError(a) == ~IsArray(a) /\ ~IsNone(a)

Rows(a) == a.shape[1]

Cols(a) == a.shape[2]

At(a, i, j) == a.data[(i - 1) * Cols(a) + j]

Matrix(r, c, f) ==
    [type |-> "ndarray", shape |-> <<r, c>>,
     data |-> [k \in 1..(r * c) |-> f[((k - 1) \div c) + 1, ((k - 1) % c) + 1]]]

RECURSIVE SumTo(_, _)
SumTo(f, n) == IF n = 0 THEN 0 ELSE f[n] + SumTo(f, n - 1)

Max(a, b) == IF a >= b THEN a ELSE b

\* ---- numpy ----
np_zeros(shape) ==
    Matrix(shape[1], shape[2], [i \in 1..shape[1], j \in 1..shape[2] |-> 0])

np_dot(a, b) ==
    IF Cols(a) # Rows(b) THEN Raise("ValueError")
    ELSE Matrix(Rows(a), Cols(b),
                [i \in 1..Rows(a), j \in 1..Cols(b) |->
                    SumTo([k \in 1..Cols(a) |-> At(a, i, k) * At(b, k, j)], Cols(a))])

np_T(a) ==
    IF IsNone(a) THEN Raise("AttributeError")
    ELSE Matrix(Cols(a), Rows(a), [i \in 1..Cols(a), j \in 1..Rows(a) |-> At(a, j, i)])

np_sum_axis0(a) ==
    [type |-> "ndarray", shape |-> <<Cols(a)>>,
     data |-> [j \in 1..Cols(a) |-> SumTo([i \in 1..Rows(a) |-> At(a, i, j)], Rows(a))]]

Broadcastable(a, b) ==
    /\ Rows(a) = Rows(b) \/ Rows(a) = 1 \/ Rows(b) = 1
    /\ Cols(a) = Cols(b) \/ Cols(a) = 1 \/ Cols(b) = 1

Bc(a, i, j) == At(a, IF Rows(a) = 1 THEN 1 ELSE i, IF Cols(a) = 1 THEN 1 ELSE j)

np_add(a, b) ==
    IF ~Broadcastable(a, b) THEN Raise("ValueError")
    ELSE LET r == Max(Rows(a), Rows(b))
             c == Max(Cols(a), Cols(b))
         IN  Matrix(r, c, [i \in 1..r, j \in 1..c |-> Bc(a, i, j) + Bc(b, i, j)])

np_multiply(a, b) ==
    IF ~Broadcastable(a, b) THEN Raise("ValueError")
    ELSE LET r == Max(Rows(a), Rows(b))
             c == Max(Cols(a), Cols(b))
         IN  Matrix(r, c, [i \in 1..r, j \in 1..c |-> Bc(a, i, j) * Bc(b, i, j)])

Values(a) == {a.data[k] : k \in DOMAIN a.data}

Elementwise(a, f) == [a EXCEPT !.data = [k \in DOMAIN a.data |-> f[a.data[k]]]]

\* exp(k) for the integers k the activations reach, in thousandths
np_exp == [k \in -2..2 |-> CASE k = -2 -> 135 [] k = -1 -> 368 [] k = 0 -> 1000
                             [] k = 1 -> 2718 [] k = 2 -> 7389]

One == np_exp[0]

np_maximum0(a) == Elementwise(a, [v \in Values(a) |-> IF v > 0 THEN v ELSE 0])

\* np_ge0 under Python 2 ordering, where None >= 0 is False instead of a TypeError
np_ge0_python2(a) ==
    IF IsNone(a) THEN np_zeros(<<1, 1>>)
    ELSE Elementwise(a, [v \in Values(a) |-> IF v >= 0 THEN 1 ELSE 0])

\* np_ge0 with the comparison > in place of >=
np_ge0_strict(a) ==
    IF IsNone(a) THEN Raise("TypeError")
    ELSE Elementwise(a, [v \in Values(a) |-> IF v > 0 THEN 1 ELSE 0])

np_ge0(a) ==
    IF IsNone(a) THEN Raise("TypeError")
    ELSE Elementwise(a, [v \in Values(a) |-> IF v >= 0 THEN 1 ELSE 0])

\* ---- the arrays the caller passes in ----
Pattern(s, k) ==
    CASE s % 3 = 0 -> (k % 3) - 1
      [] s % 3 = 1 -> 1 - 2 * (k % 2)
      [] OTHER -> ((k + 1) % 3) - 1

Gen(r, c, s) == Matrix(r, c, [i \in 1..r, j \in 1..c |-> Pattern(s, (i - 1) * c + j)])

Inputs == {Gen(r, c, s) : r \in 1..MaxBatch, c \in 1..MaxDim, s \in 0..MaxSeed}

initialise_weights(shape) ==
    {Matrix(shape[1], shape[2],
            [i \in 1..shape[1], j \in 1..shape[2] |-> ((i - 1) * shape[2] + j + s) % 3])
        : s \in 0..MaxSeed}

Layers == {"Linear", "Sigmoid", "Tanh", "ReLU"}

NoCall == [op |-> "init", arg |-> None, ok |-> TRUE, ret |-> None]

VARIABLES
    layer,                \* the layer object the caller drives
    weights, biases, cached_activations, weight_gradients, bias_gradients,
    Sigmoid_cached_input, Tanh_cached_input, ReLU_cached_input,
    last,                 \* the most recent call: operation, argument, outcome
    prev,                 \* the call before it
    last_forward,         \* input and output of the most recent successful forward
    earlier_forward,      \* input and output of the successful forward before that one
    constructed,          \* weights and biases as the constructor left them
    forward_called,       \* forward has been called on the object
    calls,                \* number of calls made on the object
    all_ok                \* no call on the object has raised

linear == <<weights, biases, cached_activations, weight_gradients, bias_gradients>>

caches == <<Sigmoid_cached_input, Tanh_cached_input, ReLU_cached_input>>

vars == <<layer, linear, caches, last, prev, last_forward, earlier_forward, constructed,
          forward_called, calls, all_ok>>

Call(op, arg, ret) ==
    /\ calls < MaxCalls
    /\ calls' = calls + 1
    /\ last' = [op |-> op, arg |-> arg, ok |-> ~IsError(ret), ret |-> ret]
    /\ prev' = [last EXCEPT !.ret = None]
    /\ all_ok' = (all_ok /\ ~IsError(ret))
    /\ UNCHANGED <<layer, constructed>>

Forwarded(x, ret) ==
    /\ forward_called' = TRUE
    /\ last_forward' = IF IsError(ret) THEN last_forward ELSE [x |-> x, out |-> ret]
    /\ earlier_forward' = IF IsError(ret) THEN earlier_forward ELSE last_forward

\* ---- Linear ----
Linear_init ==
    /\ \E in_size \in 1..MaxDim, out_size \in 1..MaxDim :
          /\ weights \in initialise_weights(<<in_size, out_size>>)
          /\ biases = np_zeros(<<1, out_size>>)
    /\ cached_activations = None
    /\ weight_gradients = np_zeros(weights.shape)
    /\ bias_gradients = np_zeros(biases.shape)

\* Linear_forward caching its input in place of its output
Linear_forward_caches_input(x) ==
    LET product == np_dot(x, weights)
        activations == IF IsError(product) THEN product ELSE np_add(product, biases)
    IN  /\ layer = "Linear"
        /\ cached_activations' = IF IsError(activations) THEN cached_activations ELSE x
        /\ UNCHANGED <<weights, biases, weight_gradients, bias_gradients, caches>>
        /\ Forwarded(x, activations)
        /\ Call("forward", x, activations)

Linear_forward(x) ==
    LET product == np_dot(x, weights)
        activations == IF IsError(product) THEN product ELSE np_add(product, biases)
    IN  /\ layer = "Linear"
        /\ cached_activations' = IF IsError(activations) THEN cached_activations ELSE activations
        /\ UNCHANGED <<weights, biases, weight_gradients, bias_gradients, caches>>
        /\ Forwarded(x, activations)
        /\ Call("forward", x, activations)

\* Linear_backward returning error . weights, the transpose forgotten
Linear_backward_untransposed(error) ==
    LET sums == np_sum_axis0(error)
        transposed == np_T(cached_activations)
        gradients == IF IsError(transposed) THEN transposed ELSE np_dot(transposed, error)
        ret == IF IsError(gradients) THEN gradients ELSE np_dot(error, weights)
    IN  /\ layer = "Linear"
        /\ bias_gradients' = sums
        /\ weight_gradients' = IF IsError(gradients) THEN weight_gradients ELSE gradients
        /\ UNCHANGED <<weights, biases, cached_activations, caches>>
        /\ UNCHANGED <<forward_called, last_forward, earlier_forward>>
        /\ Call("backward", error, ret)

\* Linear_backward adding the column sums to bias_gradients (+= for =)
Linear_backward_accumulates(error) ==
    LET sums == np_sum_axis0(error)
        added == IF Len(bias_gradients.data) # Len(sums.data) THEN Raise("ValueError")
                 ELSE [bias_gradients EXCEPT
                          !.data = [j \in DOMAIN sums.data |-> bias_gradients.data[j] + sums.data[j]]]
        transposed == IF IsError(added) THEN added ELSE np_T(cached_activations)
        gradients == IF IsError(transposed) THEN transposed ELSE np_dot(transposed, error)
        ret == IF IsError(gradients) THEN gradients ELSE np_dot(error, np_T(weights))
    IN  /\ layer = "Linear"
        /\ bias_gradients' = IF IsError(added) THEN bias_gradients ELSE added
        /\ weight_gradients' = IF IsError(gradients) THEN weight_gradients ELSE gradients
        /\ UNCHANGED <<weights, biases, cached_activations, caches>>
        /\ UNCHANGED <<forward_called, last_forward, earlier_forward>>
        /\ Call("backward", error, ret)

\* Linear_backward applying the bias gradient to biases itself
Linear_backward_updates_biases(error) ==
    LET sums == np_sum_axis0(error)
        transposed == np_T(cached_activations)
        gradients == IF IsError(transposed) THEN transposed ELSE np_dot(transposed, error)
        ret == IF IsError(gradients) THEN gradients ELSE np_dot(error, np_T(weights))
        stepped == np_add(biases, [sums EXCEPT !.shape = <<1, Len(sums.data)>>])
    IN  /\ layer = "Linear"
        /\ bias_gradients' = sums
        /\ weight_gradients' = IF IsError(gradients) THEN weight_gradients ELSE gradients
        /\ biases' = IF IsError(ret) \/ IsError(stepped) THEN biases ELSE stepped
        /\ UNCHANGED <<weights, cached_activations, caches>>
        /\ UNCHANGED <<forward_called, last_forward, earlier_forward>>
        /\ Call("backward", error, ret)

Linear_backward(error) ==
    LET sums == np_sum_axis0(error)
        transposed == np_T(cached_activations)
        gradients == IF IsError(transposed) THEN transposed ELSE np_dot(transposed, error)
        ret == IF IsError(gradients) THEN gradients ELSE np_dot(error, np_T(weights))
    IN  /\ layer = "Linear"
        /\ bias_gradients' = sums
        /\ weight_gradients' = IF IsError(gradients) THEN weight_gradients ELSE gradients
        /\ UNCHANGED <<weights, biases, cached_activations, caches>>
        /\ UNCHANGED <<forward_called, last_forward, earlier_forward>>
        /\ Call("backward", error, ret)

\* ---- Sigmoid ----
sigmoid(x) ==
    IF IsNone(x) THEN Raise("TypeError")
    ELSE Elementwise(x, [v \in Values(x) |-> (One * One) \div (One + np_exp[-v])])

\* Sigmoid_forward filling the cache only while it is empty
Sigmoid_forward_keeps_cache(x) ==
    /\ layer = "Sigmoid"
    /\ Sigmoid_cached_input' = IF IsNone(Sigmoid_cached_input) THEN x ELSE Sigmoid_cached_input
    /\ UNCHANGED <<linear, Tanh_cached_input, ReLU_cached_input>>
    /\ Forwarded(x, sigmoid(x))
    /\ Call("forward", x, sigmoid(x))

Sigmoid_forward(x) ==
    /\ layer = "Sigmoid"
    /\ Sigmoid_cached_input' = x
    /\ UNCHANGED <<linear, Tanh_cached_input, ReLU_cached_input>>
    /\ Forwarded(x, sigmoid(x))
    /\ Call("forward", x, sigmoid(x))

Sigmoid_backward(error) ==
    LET s == sigmoid(Sigmoid_cached_input)
        derivative == IF IsError(s) THEN s
                      ELSE Elementwise(s, [v \in Values(s) |-> (v * (One - v)) \div One])
        ret == IF IsError(derivative) THEN derivative ELSE np_multiply(error, derivative)
    IN  /\ layer = "Sigmoid"
        /\ UNCHANGED <<linear, caches, forward_called, last_forward, earlier_forward>>
        /\ Call("backward", error, ret)

\* ---- Tanh ----
tanh(x) ==
    IF IsNone(x) THEN Raise("TypeError")
    ELSE Elementwise(x, [v \in Values(x) |->
                            -One + (2 * One * One) \div (One + np_exp[-2 * v])])

Tanh_forward(x) ==
    /\ layer = "Tanh"
    /\ Tanh_cached_input' = x
    /\ UNCHANGED <<linear, Sigmoid_cached_input, ReLU_cached_input>>
    /\ Forwarded(x, tanh(x))
    /\ Call("forward", x, tanh(x))

Tanh_backward(error) ==
    LET t == tanh(Tanh_cached_input)
        derivative == IF IsError(t) THEN t
                      ELSE Elementwise(t, [v \in Values(t) |-> One - (v * v) \div One])
        ret == IF IsError(derivative) THEN derivative ELSE np_multiply(error, derivative)
    IN  /\ layer = "Tanh"
        /\ UNCHANGED <<linear, caches, forward_called, last_forward, earlier_forward>>
        /\ Call("backward", error, ret)

\* ---- ReLU ----
ReLU_forward(x) ==
    /\ layer = "ReLU"
    /\ ReLU_cached_input' = x
    /\ UNCHANGED <<linear, Sigmoid_cached_input, Tanh_cached_input>>
    /\ Forwarded(x, np_maximum0(x))
    /\ Call("forward", x, np_maximum0(x))

ReLU_backward(error) ==
    LET mask == np_ge0(ReLU_cached_input)
        ret == IF IsError(mask) THEN mask ELSE np_multiply(error, mask)
    IN  /\ layer = "ReLU"
        /\ UNCHANGED <<linear, caches, forward_called, last_forward, earlier_forward>>
        /\ Call("backward", error, ret)

\* ---- the caller ----
Linear_absent ==
    /\ weights = None
    /\ biases = None
    /\ cached_activations = None
    /\ weight_gradients = None
    /\ bias_gradients = None

Init ==
    /\ layer \in Layers
    /\ IF layer = "Linear" THEN Linear_init ELSE Linear_absent
    /\ Sigmoid_cached_input = None
    /\ Tanh_cached_input = None
    /\ ReLU_cached_input = None
    /\ last = NoCall
    /\ prev = NoCall
    /\ last_forward = [x |-> None, out |-> None]
    /\ earlier_forward = [x |-> None, out |-> None]
    /\ constructed = [weights |-> weights, biases |-> biases]
    /\ forward_called = FALSE
    /\ calls = 0
    /\ all_ok = TRUE

Next ==
    \/ \E x \in Inputs : Linear_forward(x)
    \/ \E error \in Inputs : Linear_backward(error)
    \/ \E x \in Inputs : Sigmoid_forward(x)
    \/ \E error \in Inputs : Sigmoid_backward(error)
    \/ \E x \in Inputs : Tanh_forward(x)
    \/ \E error \in Inputs : Tanh_backward(error)
    \/ \E x \in Inputs : ReLU_forward(x)
    \/ \E error \in Inputs : ReLU_backward(error)

Spec == Init /\ [][Next]_vars

\* ---- properties ----
Elementwise_layers == {"Sigmoid", "Tanh", "ReLU"}

cached_input ==
    CASE layer = "Sigmoid" -> Sigmoid_cached_input
      [] layer = "Tanh" -> Tanh_cached_input
      [] layer = "ReLU" -> ReLU_cached_input
      [] OTHER -> None

\* the local derivative of each activation at the float v
Derivative(l, v) ==
    CASE l = "Sigmoid" -> LET s == (One * One) \div (One + np_exp[-v]) IN (s * (One - s)) \div One
      [] l = "Tanh" -> LET t == -One + (2 * One * One) \div (One + np_exp[-2 * v])
                       IN  One - (t * t) \div One
      [] l = "ReLU" -> IF v >= 0 THEN 1 ELSE 0

ColumnSum(a, j) == SumTo([i \in 1..Rows(a) |-> At(a, i, j)], Rows(a))

\* C1: backward on an object whose forward was never called raises, whatever
\* the upstream error, for Linear, Sigmoid, Tanh and ReLU alike.
C1_BackwardBeforeForwardRaises ==
    (last.op = "backward" /\ ~forward_called) => (~last.ok /\ IsError(last.ret))

C1_Witness ==
    /\ layer = "ReLU"
    /\ last.op = "backward"
    /\ ~forward_called
    /\ last.ret = Raise("TypeError")

\* C2: an elementwise layer's backward raises whenever the upstream error's
\* shape differs from the shape of the cached input.
C2_ShapeMismatchRaises ==
    (/\ layer \in Elementwise_layers
     /\ last.op = "backward"
     /\ IsArray(cached_input)
     /\ last.arg.shape # cached_input.shape) => ~last.ok

\* C3: a call that raises leaves every stored field of the layer as it was.
C3_FailedCallKeepsState ==
    [][~last'.ok => UNCHANGED <<linear, caches>>]_vars

\* C4: while every call has succeeded, weight_gradients has the shape of
\* weights and bias_gradients has the shape of biases.
C4_GradientShapes ==
    (layer = "Linear" /\ all_ok) =>
        /\ weight_gradients.shape = weights.shape
        /\ bias_gradients.shape = biases.shape

C6_LinearForwardBackward ==
    layer = "Linear" =>
        /\ (last.op = "forward" /\ Cols(last.arg) = Rows(weights)) =>
              /\ last.ok
              /\ last.ret.shape = <<Rows(last.arg), Cols(weights)>>
              /\ \A i \in 1..Rows(last.arg), j \in 1..Cols(weights) :
                    At(last.ret, i, j) =
                        SumTo([k \in 1..Rows(weights) |-> At(last.arg, i, k) * At(weights, k, j)],
                              Rows(weights)) + At(biases, 1, j)
        /\ (last.op = "backward" /\ IsArray(cached_activations)
                /\ last.arg.shape = cached_activations.shape) => last.ok
        /\ (last.op = "backward" /\ last.ok) =>
              /\ last.ret.shape = <<Rows(last.arg), Rows(weights)>>
              /\ \A i \in 1..Rows(last.arg), j \in 1..Rows(weights) :
                    At(last.ret, i, j) =
                        SumTo([k \in 1..Cols(weights) |-> At(last.arg, i, k) * At(weights, j, k)],
                              Cols(weights))

C6_Witness ==
    /\ layer = "Linear"
    /\ Rows(weights) # Cols(weights)
    /\ last.op = "backward"
    /\ last.ok
    /\ IsArray(earlier_forward.x)
    /\ Rows(earlier_forward.x) # Rows(last_forward.x)
    /\ \E k \in DOMAIN last.ret.data : last.ret.data[k] # 0

\* C7: after a successful Linear.backward, bias_gradients holds the column
\* sums of that call's error and nothing of the calls before it.
C7_BiasGradientsAreColumnSums ==
    (layer = "Linear" /\ last.op = "backward" /\ last.ok) =>
        /\ Len(bias_gradients.data) = Cols(last.arg)
        /\ \A j \in 1..Cols(last.arg) : bias_gradients.data[j] = ColumnSum(last.arg, j)

C7_Witness ==
    /\ layer = "Linear"
    /\ last.op = "backward"
    /\ last.ok
    /\ prev.op = "backward"
    /\ prev.ok
    /\ Rows(last.arg) = 2
    /\ \E j \in 1..Cols(last.arg) :
          /\ ColumnSum(prev.arg, j) # 0
          /\ ColumnSum(prev.arg, j) # ColumnSum(last.arg, j)

\* C8: forward and backward never change weights or biases, and the
\* constructor leaves biases at zero.
C8_ParametersUntouched ==
    layer = "Linear" =>
        /\ weights = constructed.weights
        /\ biases = constructed.biases
        /\ constructed.biases.shape = <<1, Cols(constructed.weights)>>
        /\ \A k \in DOMAIN constructed.biases.data : constructed.biases.data[k] = 0

C8_Witness ==
    /\ layer = "Linear"
    /\ prev.op = "forward"
    /\ prev.ok
    /\ last.op = "backward"
    /\ last.ok
    /\ \E k \in DOMAIN bias_gradients.data : bias_gradients.data[k] # 0
    /\ \E k \in DOMAIN weight_gradients.data : weight_gradients.data[k] # 0

\* C9: after a successful forward and a successful backward, weight_gradients
\* is the transposed output of the most recent forward times the error.
C9_WeightGradientsFromOutput ==
    (layer = "Linear" /\ last.op = "backward" /\ last.ok) =>
        LET out == last_forward.out
        IN  /\ IsArray(out)
            /\ weight_gradients.shape = <<Cols(out), Cols(last.arg)>>
            /\ \A i \in 1..Cols(out), j \in 1..Cols(last.arg) :
                  At(weight_gradients, i, j) =
                      SumTo([b \in 1..Rows(out) |-> At(out, b, i) * At(last.arg, b, j)], Rows(out))

C9_Witness ==
    /\ layer = "Linear"
    /\ last.op = "backward"
    /\ last.ok
    /\ IsArray(earlier_forward.out)
    /\ earlier_forward.out.shape = last_forward.out.shape
    /\ earlier_forward.out # last_forward.out
    /\ last_forward.x.shape = last_forward.out.shape
    /\ last_forward.x # last_forward.out
    /\ weight_gradients # np_dot(np_T(last_forward.x), last.arg)
    /\ weight_gradients # np_dot(np_T(earlier_forward.out), last.arg)

\* C10: ReLU.forward returns max(0, x) elementwise, and the backward after it
\* returns the error where the input was >= 0 and 0 where it was < 0.
C10_ReLU ==
    layer = "ReLU" =>
        /\ last.op = "forward" =>
              /\ last.ok
              /\ last.ret.shape = last.arg.shape
              /\ \A k \in DOMAIN last.arg.data :
                    /\ last.arg.data[k] >= 0 => last.ret.data[k] = last.arg.data[k]
                    /\ last.arg.data[k] < 0 => last.ret.data[k] = 0
        /\ (last.op = "backward" /\ forward_called /\ last.arg.shape = last_forward.x.shape) =>
              /\ last.ok
              /\ last.ret.shape = last.arg.shape
              /\ \A k \in DOMAIN last.arg.data :
                    /\ last_forward.x.data[k] >= 0 => last.ret.data[k] = last.arg.data[k]
                    /\ last_forward.x.data[k] < 0 => last.ret.data[k] = 0

C10_Witness ==
    /\ layer = "ReLU"
    /\ last.op = "backward"
    /\ last.ok
    /\ prev.op = "forward"
    /\ last.arg.shape = last_forward.x.shape
    /\ \E k \in DOMAIN last.arg.data : last_forward.x.data[k] = 0 /\ last.ret.data[k] # 0
    /\ \E k \in DOMAIN last.arg.data : last_forward.x.data[k] < 0 /\ last.arg.data[k] # 0
    /\ \E k \in DOMAIN last.arg.data : last_forward.x.data[k] > 0 /\ last.arg.data[k] # 0
====
